---- MODULE Spec2Model ----
(***************************************************************************)
(* Verification model of the permutation engine and the Monte Carlo        *)
(* significance test of the TradingSystemFramework repository:             *)
(*   framework/performance/monte_carlo_measures.py                         *)
(*       MonteCarloPermutationTest.get_permutation, .calculate             *)
(*   framework/significance_testing/monte_carlo_significance_test.py       *)
(*       MonteCarloSignificanceTest.__init__, .test, ._calculate_metric    *)
(*                                                                         *)
(* Numbers.  Prices are whole price units.  np.log and np.exp return the   *)
(* representable value nearest to the exact result; the model keeps that   *)
(* rounding on a decimal grid (log values in tenths) in place of the       *)
(* binary64 grid, so exp(log(p)) is the identity for some prices only, as  *)
(* in the program (binary64: exp(log(100.0)) = 100.00000000000004).        *)
(* Sums and differences of log values are exact on the grid.  NaN is a     *)
(* value of its own that every sum and conversion propagates.              *)
(*                                                                         *)
(* Tables.  get_permutation reads its argument through .index, .iloc and   *)
(* column selection, so an input table is a frame with a time index, a     *)
(* column set and OHLC rows; what it returns is built by pl.DataFrame with *)
(* the schema open, high, low, close and has no index.                     *)
(*                                                                         *)
(* The process-wide numpy generator is the variable rng.  A state of the   *)
(* generator fixes the numbers it yields next; np.random.seed(k) puts it   *)
(* in a state that depends on k only, np.random.seed(None) in any state.   *)
(***************************************************************************)
EXTENDS Integers, Sequences, FiniteSets, TLC

\* ------------------------------------------------------------------ bounds
MaxBars == 3
MaxSeed == 1
RngMod == 6
MinStartAbs == 2
RngBars == 2
MaxLen == 3
MaxPerms == 2
SeriesLen == 2
MaxSignals == 3
MaxRsi == 5
MaxCalls == 2
MaxFiles == 3

VARIABLES
    ohlc,         \* the caller's argument: one table, or a list of tables
    start_index,  \* the caller's start_index argument
    seed,         \* the caller's seed argument (NoSeed for None)
    rng,          \* state of the global numpy random generator
    last,         \* record of the most recent get_permutation call
    strategy_returns,  \* the returns series handed to the tests
    n_permutations,    \* MonteCarloSignificanceTest.n_permutations
    random_seed,       \* MonteCarloSignificanceTest.random_seed
    outcome,           \* the record the most recent test returned
    results,           \* BaseSignificanceTest.results
    is_calculated,     \* BaseSignificanceTest.is_calculated
    params,            \* BaseSignificanceTest.params
    call,              \* the most recent get_results or set_params call
    current_position,  \* SignalManager.current_position
    raw_signals,       \* the series of raw signals handed to generate_signals
    exit_conditions,   \* the exit conditions handed to generate_signals
    signal_result,     \* the most recent generate_signals call and its SignalResult
    position,          \* Mach1RsiBreakoutStrategy.position
    rsi_values,        \* the values of the strategy's RSI feature
    signals,           \* the series generate_raw_signal returned, call by call
    base_dir,          \* the directory of the VersionManager
    created            \* the file names created from get_versioned_filename

permvars == <<ohlc, start_index, seed, last>>
objvars == <<strategy_returns, n_permutations, random_seed>>
cachevars == <<results, is_calculated, params, call>>
testvars == <<strategy_returns, n_permutations, random_seed, outcome,
              results, is_calculated, params, call>>
sigvars == <<current_position, raw_signals, exit_conditions, signal_result>>
stratvars == <<position, rsi_values, signals>>
dirvars == <<base_dir, created>>
restvars == <<sigvars, stratvars, dirvars>>
vars == <<ohlc, start_index, seed, rng, last,
          strategy_returns, n_permutations, random_seed, outcome,
          results, is_calculated, params, call,
          current_position, raw_signals, exit_conditions, signal_result, position, rsi_values, signals,
          base_dir, created>>

\* ------------------------------------------------------------ number model
NaN == 0 - 1000000
NoSeed == 0 - 1            \* seed=None

\* the one element of a one-element set
Only(S) == CHOOSE y \in S : TRUE

Max(a, b) == IF a >= b THEN a ELSE b
Min(a, b) == IF a <= b THEN a ELSE b

\* round(10 * ln p) for p = 1 .. 40
LogTable ==
    << 0,  7, 11, 14, 16, 18, 19, 21, 22, 23,
      24, 25, 26, 26, 27, 28, 28, 29, 29, 30,
      30, 31, 31, 32, 32, 33, 33, 33, 34, 34,
      34, 35, 35, 35, 36, 36, 36, 36, 37, 37 >>

\* round(e^(v/10)) for v = -30 .. 70
ExpTable ==
    << 0, 0, 0, 0, 0, 0, 0, 0, 0, 0,
       0, 0, 0, 0, 0, 0, 0, 0, 0, 0,
       0, 0, 0, 0, 1, 1, 1, 1, 1, 1,
       1, 1, 1, 1, 1, 2, 2, 2, 2, 2,
       3, 3, 3, 4, 4, 4, 5, 5, 6, 7,
       7, 8, 9, 10, 11, 12, 13, 15, 16, 18,
       20, 22, 25, 27, 30, 33, 37, 40, 45, 49,
       55, 60, 67, 74, 81, 90, 99, 110, 122, 134,
       148, 164, 181, 200, 221, 245, 270, 299, 330, 365,
       403, 446, 493, 545, 602, 665, 735, 812, 898, 992,
       1097 >>

Log(p) == IF p = NaN THEN NaN ELSE LogTable[p]
Exp(v) == IF v = NaN THEN NaN ELSE ExpTable[v + 31]

Add(a, b) == IF a = NaN \/ b = NaN THEN NaN ELSE a + b
Sub(a, b) == IF a = NaN \/ b = NaN THEN NaN ELSE a - b

\* ------------------------------------------------------------------ tables
OHLC == {"open", "high", "low", "close"}

Bar(o, h, l, c) == [open |-> o, high |-> h, low |-> l, close |-> c]

\* bars of the first market and of a second market quoted on the same times
BarSet  == { Bar(10, 14, 9, 12), Bar(15, 16, 8, 9) }
BarSet2 == { Bar(20, 27, 16, 24), Bar(24, 30, 12, 15) }

\* a pandas frame: a time index, the column set, the OHLC rows
Frame(idx, extra, rows) == [index |-> idx, columns |-> OHLC \cup extra, bars |-> rows]

TimeIndex(n) == [i \in 1..n |-> i]

Frames(bset, n) ==
    { Frame(TimeIndex(n), extra, rows) :
        extra \in { {}, {"volume"} }, rows \in [1..n -> bset] }

\* a second market of the same length and index, and two that disagree
Twin(b) == IF b = Bar(10, 14, 9, 12) THEN Bar(20, 27, 16, 24) ELSE Bar(24, 30, 12, 15)

Partners(t) ==
    LET n == Len(t.bars) IN
      { Frame(t.index, {}, [i \in 1..n |-> Twin(t.bars[i])]) }
      \cup { Frame([i \in 1..n |-> i + 1], {}, [i \in 1..n |-> Bar(20, 27, 16, 24)]) }
      \cup { Frame(TimeIndex(n + 1), {}, [i \in 1..(n + 1) |-> Bar(20, 27, 16, 24)]) }

Inputs ==
    UNION { LET F == Frames(BarSet, n) IN
              { [form |-> "single", tables |-> <<t>>] : t \in F }
              \cup { [form |-> "list", tables |-> <<t>>] : t \in { f \in F : f.columns = OHLC } }
              \cup UNION { { [form |-> "list", tables |-> <<t, u>>] : u \in Partners(t) }
                           : t \in { f \in F : f.columns = OHLC } }
            : n \in 1..MaxBars }

\* ------------------------------------------------------- python sequences
\* s[from:] with a 0-based, possibly negative, start
PySliceFrom(s, from) ==
    LET n  == Len(s)
        st == IF from < 0 THEN Max(0, n + from) ELSE Min(from, n)
    IN  SubSeq(s, st + 1, n)

\* s[:to]
PySliceTo(s, to) ==
    LET n  == Len(s)
        en == IF to < 0 THEN Max(0, n + to) ELSE Min(to, n)
    IN  SubSeq(s, 1, en)

\* position (1-based) of python index i in a sequence of length n
PyIdx(n, i) == IF i < 0 THEN n + i + 1 ELSE i + 1

PyIdxOk(n, i) == (0 - n) <= i /\ i < n

\* ------------------------------------------------------- random generator
\* np.random.seed(sd) when the generator is in state cur: the states it may
\* leave.  None takes fresh entropy from the operating system.
SeedNever(sd, cur) == { cur }

SeedStates(sd, cur) ==
    IF sd = NoSeed THEN 0..(RngMod - 1)
    ELSE { (2 * sd + 1) % RngMod }

RngNext(s) == (s + 1) % RngMod

\* the number the generator yields in state s
RngOutput(s) == <<0, 2, 3, 5, 4, 1>>[(s % 6) + 1] + 6 * (s \div 6)

RECURSIVE Fact(_)
Fact(n) == IF n <= 1 THEN 1 ELSE n * Fact(n - 1)

RemoveAt(s, i) == SubSeq(s, 1, i - 1) \o SubSeq(s, i + 1, Len(s))

RECURSIVE Unrank(_, _)
Unrank(rem, r) ==
    IF rem = <<>> THEN <<>>
    ELSE LET f == Fact(Len(rem) - 1)
             q == r \div f
         IN  <<rem[q + 1]>> \o Unrank(RemoveAt(rem, q + 1), r % f)

\* np.random.permutation(np.arange(n)) drawn in generator state s:
\* the order (as 1-based positions) and the state it leaves
RandomChoice(n, s) ==
    [ perm |-> [i \in 1..n |-> (RngOutput(s) % n) + 1],
      rng  |-> IF n >= 2 THEN RngNext(s) ELSE s ]

RandomPermutation(n, s) ==
    [ perm |-> Unrank([i \in 1..n |-> i], RngOutput(s) % Fact(n)),
      rng  |-> IF n >= 2 THEN RngNext(s) ELSE s ]

\* a[:, perm]
Take(a, perm) == [k \in 1..Len(perm) |-> a[perm[k]]]

\* ---------------------------------------------------- LogRelativeEncoder
\* np.log(reg_bars[['open', 'high', 'low', 'close']])
log_bars(t) ==
    [i \in 1..Len(t.bars) |->
        Bar(Log(t.bars[i].open), Log(t.bars[i].high),
            Log(t.bars[i].low),  Log(t.bars[i].close))]

\* open relative to the previous close; shift() leaves NaN at the first bar
r_o(lb) == [i \in 1..Len(lb) |-> IF i = 1 THEN NaN ELSE Sub(lb[i].open, lb[i - 1].close)]

\* prices relative to the bar's own open
r_h(lb) == [i \in 1..Len(lb) |-> Sub(lb[i].high,  lb[i].open)]
r_l(lb) == [i \in 1..Len(lb) |-> Sub(lb[i].low,   lb[i].open)]
r_c(lb) == [i \in 1..Len(lb) |-> Sub(lb[i].close, lb[i].open)]

\* row[:] = values for a row of length n: numpy accepts the same length,
\* and stretches a single value over the row
CanAssign(values, n) == Len(values) = n \/ Len(values) = 1

AssignRow(values, n) ==
    IF Len(values) = n THEN values ELSE [k \in 1..n |-> values[1]]

\* the four relative rows of one market (lines 97-114)
Relative(t, perm_index, perm_n) ==
    LET lb == log_bars(t) IN
      [ open  |-> AssignRow(PySliceFrom(r_o(lb), perm_index), perm_n),
        high  |-> AssignRow(PySliceFrom(r_h(lb), perm_index), perm_n),
        low   |-> AssignRow(PySliceFrom(r_l(lb), perm_index), perm_n),
        close |-> AssignRow(PySliceFrom(r_c(lb), perm_index), perm_n) ]

\* ---------------------------------------------------- BarPermutationEngine
\* the reconstruction loop, lines 140-145: i runs from perm_index to
\* n_bars - 1; python wraps a negative row number to the end of the array
RECURSIVE RebuildFromOwnRow(_, _, _, _)
RebuildFromOwnRow(perm_bars, i, perm_index, rel) ==
    IF i >= Len(perm_bars) THEN perm_bars
    ELSE LET n == Len(perm_bars)
             k == i - perm_index + 1
             o == Add(perm_bars[PyIdx(n, i)].close, rel.open[k])
             b == Bar(o, Add(o, rel.high[k]), Add(o, rel.low[k]), Add(o, rel.close[k]))
         IN  RebuildFromOwnRow([perm_bars EXCEPT ![PyIdx(n, i)] = b], i + 1, perm_index, rel)

RECURSIVE Rebuild(_, _, _, _)
Rebuild(perm_bars, i, perm_index, rel) ==
    IF i >= Len(perm_bars) THEN perm_bars
    ELSE LET n == Len(perm_bars)
             k == i - perm_index + 1
             o == Add(perm_bars[PyIdx(n, i - 1)].close, rel.open[k])
             b == Bar(o, Add(o, rel.high[k]), Add(o, rel.low[k]), Add(o, rel.close[k]))
         IN  Rebuild([perm_bars EXCEPT ![PyIdx(n, i)] = b], i + 1, perm_index, rel)

\* lines 118-126 for market m: perm1 reorders high, low and close together,
\* perm2 reorders the gaps
ShufflePerMarket(m, pre, perm1, perm2) ==
    LET p1 == IF m = 1 THEN perm1 ELSE [k \in 1..Len(perm1) |-> perm1[Len(perm1) + 1 - k]]
    IN  [ open  |-> Take(pre.open,  perm2),
          high  |-> Take(pre.high,  p1),
          low   |-> Take(pre.low,   p1),
          close |-> Take(pre.close, p1) ]

\* the close offsets reordered apart from the high and low offsets
ShuffleIndependently(m, pre, perm1, perm2) ==
    [ open  |-> Take(pre.open,  perm2),
      high  |-> Take(pre.high,  perm1),
      low   |-> Take(pre.low,   perm1),
      close |-> Take(pre.close, perm2) ]

Shuffle(m, pre, perm1, perm2) ==
    [ open  |-> Take(pre.open,  perm2),
      high  |-> Take(pre.high,  perm1),
      low   |-> Take(pre.low,   perm1),
      close |-> Take(pre.close, perm1) ]

\* lines 131-145 for one market, in log space
PermBarsNoStartBar(t, start, rel) ==
    LET lb     == log_bars(t)
        n      == Len(lb)
        copied == Len(PySliceTo(lb, start))
        prefix == [i \in 1..n |-> IF i <= copied THEN lb[i] ELSE Bar(0, 0, 0, 0)]
    IN  Rebuild(prefix, start + 1, start + 1, rel)

PermBars(t, start, rel) ==
    LET lb     == log_bars(t)
        n      == Len(lb)
        copied == Len(PySliceTo(lb, start))
        zeros  == [i \in 1..n |-> Bar(0, 0, 0, 0)]
        prefix == [i \in 1..n |-> IF i <= copied THEN lb[i] ELSE zeros[i]]
        anchor == [prefix EXCEPT ![PyIdx(n, start)] = lb[PyIdx(n, start)]]
    IN  Rebuild(anchor, start + 1, start + 1, rel)

\* lines 147-148: back to prices, as a new frame with the four columns
ToFrame(perm_bars) ==
    [ columns |-> OHLC,
      bars    |-> [i \in 1..Len(perm_bars) |->
                     Bar(Exp(perm_bars[i].open), Exp(perm_bars[i].high),
                         Exp(perm_bars[i].low),  Exp(perm_bars[i].close))] ]

Failure(kind, s) ==
    [ status |-> "error", error |-> kind, form |-> "none", tables |-> <<>>,
      perm_bars |-> <<>>, perm1 |-> <<>>, perm2 |-> <<>>, draws |-> 0, rng |-> s ]

\* get_permutation(arg, start, seed) once np.random.seed(seed) has left the
\* generator in state s
get_permutation(arg, start, s) ==
    LET tbl        == arg.tables
        n_markets  == Len(tbl)
        n_bars     == Len(tbl[1].bars)
        perm_index == start + 1
        perm_n     == n_bars - perm_index
    IN
    IF \E m \in 1..n_markets : tbl[m].index # tbl[1].index
    THEN Failure("IndexesDoNotMatch", s)                      \* line 79
    ELSE IF perm_n < 0
    THEN Failure("NegativeDimension", s)                      \* lines 92-95
    ELSE IF ~PyIdxOk(n_bars, start)
    THEN Failure("IndexOutOfBounds", s)                       \* line 101
    ELSE IF ~CanAssign(PySliceFrom(tbl[1].bars, perm_index), perm_n)
    THEN Failure("CannotBroadcast", s)                        \* lines 111-114
    ELSE
      LET pre  == [m \in 1..n_markets |-> Relative(tbl[m], perm_index, perm_n)]
          d1   == RandomPermutation(perm_n, s)                \* line 119
          d2   == RandomPermutation(perm_n, d1.rng)           \* line 125
          rel  == [m \in 1..n_markets |-> Shuffle(m, pre[m], d1.perm, d2.perm)]
          pb   == [m \in 1..n_markets |-> PermBars(tbl[m], start, rel[m])]
      IN  [ status |-> "ok", error |-> "none",
            form |-> IF n_markets > 1 THEN "list" ELSE "single",   \* lines 152-155
            tables |-> [m \in 1..n_markets |-> ToFrame(pb[m])],
            perm_bars |-> pb, perm1 |-> d1.perm, perm2 |-> d2.perm,
            draws |-> 2, rng |-> d2.rng ]

\* What the caller's table(s) hold once the call is over.  The call binds
\* its own list (line 84), reads each table through a column selection and
\* np.log, which build new arrays (lines 98, 132), and writes only into
\* arrays it allocated itself (lines 91-95, 130): nothing is stored into
\* the argument, on the failing paths no more than on the returning one.
InputAfterInPlace(arg, r) ==
    IF r.status = "ok" /\ Len(r.perm1) >= 2 /\ Len(r.perm1) <= Len(arg.tables[1].bars)
    THEN LET n   == Len(arg.tables[1].bars)
             off == n - Len(r.perm1)
         IN  [arg EXCEPT !.tables =
                [m \in 1..Len(arg.tables) |->
                   [arg.tables[m] EXCEPT !.bars =
                      [i \in 1..n |-> IF i <= off THEN arg.tables[m].bars[i]
                                      ELSE arg.tables[m].bars[off + r.perm1[i - off]]]]]]
    ELSE arg

InputAfter(arg, r) == arg

\* ---------------------------------------------------------------- numbers
\* Returns are exact multiples of one half; a metric value is an exact
\* fraction n/d in lowest terms with d > 0, or NaN (d = 0).  A comparison
\* with NaN is false, a sum or quotient with NaN is NaN.
RECURSIVE GCD(_, _)
GCD(a, b) == IF b = 0 THEN a ELSE GCD(b, a % b)

Abs(a) == IF a < 0 THEN 0 - a ELSE a

NaNR == [n |-> 0, d |-> 0]

\* float('inf')
InfR == [n |-> 1, d |-> 0]

Rat(a, b) ==
    IF b = 0 THEN NaNR
    ELSE LET g  == GCD(Abs(a), Abs(b))
             sg == IF b < 0 THEN 0 - 1 ELSE 1
         IN  [n |-> sg * (a \div g), d |-> sg * (b \div g)]

IsNaN(x) == x.d = 0 /\ x.n = 0

RAdd(x, y) == IF IsNaN(x) \/ IsNaN(y) THEN NaNR ELSE Rat(x.n * y.d + y.n * x.d, x.d * y.d)
RSub(x, y) == IF IsNaN(x) \/ IsNaN(y) THEN NaNR ELSE Rat(x.n * y.d - y.n * x.d, x.d * y.d)
RMul(x, y) == IF IsNaN(x) \/ IsNaN(y) THEN NaNR ELSE Rat(x.n * y.n, x.d * y.d)
RDiv(x, y) == IF IsNaN(x) \/ IsNaN(y) THEN NaNR ELSE Rat(x.n * y.d, x.d * y.n)

RGeq(x, y) == ~IsNaN(x) /\ ~IsNaN(y) /\ x.n * y.d >= y.n * x.d
RLeq(x, y) == ~IsNaN(x) /\ ~IsNaN(y) /\ x.n * y.d <= y.n * x.d
RLess(x, y) == ~IsNaN(x) /\ ~IsNaN(y) /\ x.n * y.d < y.n * x.d

\* returns of -50 %, 0 and +100 %, in halves
ReturnSet == { 0 - 1, 0, 2 }

\* gains of +50 % and +100 %
PositiveSet == { 1, 2 }

ReturnsSeries == UNION { [1..n -> ReturnSet] : n \in 0..MaxLen }

Metrics == { "sharpe", "profit_factor", "total_return", "max_drawdown", "calmar" }

Levels == { Rat(1, 20), Rat(1, 1) }

RECURSIVE Sum(_)
Sum(a) == IF a = <<>> THEN 0 ELSE a[1] + Sum(Tail(a))

\* ----------------------------------------------------------- MetricEvaluator
\* returns.mean() / returns.std() * np.sqrt(252), std with ddof = 1.  The
\* value v is kept as sign(v) * v^2, which orders and separates the values
\* as v does.  A series of fewer than two returns has std NaN, and NaN == 0
\* is false.
Sharpe(returns) ==
    LET n  == Len(returns)
        sx == Sum(returns)
        v  == n * Sum([i \in 1..n |-> returns[i] * returns[i]]) - sx * sx
    IN  IF n < 2 THEN NaNR
        ELSE IF v = 0 THEN Rat(0, 1)
        ELSE Rat((IF sx < 0 THEN 0 - 1 ELSE 1) * 252 * sx * sx * (n - 1), n * v)

ProfitFactor(returns) ==
    LET n == Len(returns)
        winning_trades == Sum([i \in 1..n |-> IF returns[i] > 0 THEN returns[i] ELSE 0])
        losing_trades  == Sum([i \in 1..n |-> IF returns[i] < 0 THEN 0 - returns[i] ELSE 0])
    IN  IF losing_trades > 0 THEN Rat(winning_trades, losing_trades) ELSE Rat(0, 1)

\* ProfitFactorMeasure.calculate (profit_factor_measure.py, lines 19-22)
ProfitFactorMeasure(returns) ==
    LET n == Len(returns)
        winning_trades == Sum([i \in 1..n |-> IF returns[i] > 0 THEN returns[i] ELSE 0])
        losing_trades  == Sum([i \in 1..n |-> IF returns[i] < 0 THEN 0 - returns[i] ELSE 0])
    IN  IF losing_trades > 0 THEN Rat(winning_trades, losing_trades) ELSE InfR

TotalReturn(returns) == Rat(Sum(returns), 2)

\* (1 + returns).cumprod() at position i
RECURSIVE CumProd(_, _)
CumProd(returns, i) ==
    IF i = 0 THEN Rat(1, 1)
    ELSE RMul(CumProd(returns, i - 1), Rat(2 + returns[i], 2))

RMax(x, y) == IF RGeq(x, y) THEN x ELSE y
RMin(x, y) == IF RLeq(x, y) THEN x ELSE y

\* cumulative.expanding().max() at position i
RECURSIVE RunningMax(_, _)
RunningMax(c, i) ==
    IF i = 1 THEN c[1] ELSE RMax(RunningMax(c, i - 1), c[i])

RECURSIVE MinOf(_)
MinOf(a) ==
    IF a = <<>> THEN NaNR
    ELSE IF Len(a) = 1 THEN a[1]
    ELSE RMin(a[1], MinOf(Tail(a)))

MaxDrawdown(returns) ==
    LET n == Len(returns) IN
    Only({ MinOf([i \in 1..n |->
                    RDiv(RSub(cumulative[i], RunningMax(cumulative, i)),
                         RunningMax(cumulative, i))])
           : cumulative \in { [i \in 1..n |-> CumProd(returns, i)] } })

KnownMetric(metric) ==
    metric \in {"sharpe", "profit_factor", "total_return", "max_drawdown"}

\* _calculate_metric for a known metric; any other name raises ValueError
_calculate_metric(returns, metric) ==
    IF metric = "sharpe" THEN Sharpe(returns)
    ELSE IF metric = "profit_factor" THEN ProfitFactor(returns)
    ELSE IF metric = "total_return" THEN TotalReturn(returns)
    ELSE MaxDrawdown(returns)

\* ------------------------------------------------ MonteCarloSignificanceTest
\* the trial loop, lines 71-78: each trial draws one order of the returns
\* from the global generator and evaluates the metric on it
\* strategy_returns.sample(frac=1.0) (line 73): every value once, in an
\* order drawn from the global generator
sampleWithReplacement(returns, s) ==
    LET d == RandomPermutation(Len(returns), s)
    IN  [ values |-> [k \in 1..Len(returns) |-> returns[d.perm[1]]], rng |-> d.rng ]

sample(returns, s) ==
    LET d == RandomPermutation(Len(returns), s)
    IN  [ values |-> Take(returns, d.perm), rng |-> d.rng ]

RECURSIVE Trials(_, _, _, _)
Trials(returns, metric, k, s) ==
    IF k <= 0 THEN [ metrics |-> <<>>, rng |-> s ]
    ELSE Only({ Only({ [ metrics |-> <<_calculate_metric(d.values, metric)>>
                                       \o rest.metrics,
                         rng     |-> rest.rng ]
                       : rest \in { Trials(returns, metric, k - 1, d.rng) } })
                : d \in { sample(returns, s) } })

\* np.mean of a boolean array: the share of true entries, NaN when empty
MeanOfFlags(flags) ==
    [ num |-> Cardinality({ i \in DOMAIN flags : flags[i] }), den |-> Len(flags) ]

HigherIsBetter(metric) == metric \in {"sharpe", "profit_factor", "total_return"}

\* lines 83-88
PValueStrict(permuted_metrics, actual_metric, metric) ==
    IF HigherIsBetter(metric)
    THEN MeanOfFlags([i \in DOMAIN permuted_metrics |-> RLess(actual_metric, permuted_metrics[i])])
    ELSE MeanOfFlags([i \in DOMAIN permuted_metrics |-> RLess(permuted_metrics[i], actual_metric)])

\* the actual observation counted in its own reference set
PValueWithActual(permuted_metrics, actual_metric, metric) ==
    LET flags == [i \in DOMAIN permuted_metrics |->
                    IF HigherIsBetter(metric)
                    THEN RGeq(permuted_metrics[i], actual_metric)
                    ELSE RLeq(permuted_metrics[i], actual_metric)]
    IN  [ num |-> MeanOfFlags(flags).num + 1, den |-> Len(flags) + 1 ]

PValue(permuted_metrics, actual_metric, metric) ==
    IF HigherIsBetter(metric)
    THEN MeanOfFlags([i \in DOMAIN permuted_metrics |-> RGeq(permuted_metrics[i], actual_metric)])
    ELSE MeanOfFlags([i \in DOMAIN permuted_metrics |-> RLeq(permuted_metrics[i], actual_metric)])

\* p_value < level; false when p_value is NaN
Below(p, level) == p.den > 0 /\ p.num * level.d < level.n * p.den

RECURSIVE RSum(_)
RSum(a) == IF a = <<>> THEN Rat(0, 1) ELSE RAdd(a[1], RSum(Tail(a)))

\* np.mean of the trial metrics, NaN when there is none
MeanOf(a) == IF a = <<>> THEN NaNR ELSE RDiv(RSum(a), Rat(Len(a), 1))

\* np.std(...) > 0: the population deviation is positive exactly when the
\* values are numbers and not all equal
StdPositive(a) ==
    /\ a # <<>>
    /\ \A i \in DOMAIN a : ~IsNaN(a[i])
    /\ \E i, j \in DOMAIN a : a[i] # a[j]

\* line 96; the score is kept as its sign (NaN when the difference is NaN)
ZScore(actual_metric, a) ==
    IF ~StdPositive(a) THEN "zero"
    ELSE IF IsNaN(actual_metric) THEN "nan"
    ELSE IF actual_metric = MeanOf(a) THEN "zero"
    ELSE IF RLess(actual_metric, MeanOf(a)) THEN "negative" ELSE "positive"

\* lines 80-109: the record built from the actual metric and the trials
Outcome(actual_metric, permuted_metrics, p_value, metric, confidence_level, n) ==
    [ kind |-> "test", status |-> "ok",
      p_value |-> p_value,
      is_significant |-> Below(p_value, confidence_level),
      actual_metric |-> actual_metric,
      permuted_metrics |-> permuted_metrics,
      mean_random_metric |-> MeanOf(permuted_metrics),
      std_positive |-> StdPositive(permuted_metrics),
      z_score |-> ZScore(actual_metric, permuted_metrics),
      confidence_level |-> confidence_level,
      n_permutations |-> n,
      metric_tested |-> metric ]

\* the metric name looked at only once the trials have been drawn
testValidatesLate(returns, n, metric, confidence_level, s) ==
    Only({ IF ~KnownMetric(metric)
           THEN [ record |-> [ kind |-> "test", status |-> "error", call |-> "test" ],
                  rng |-> t.rng ]
           ELSE [ record |-> Outcome(_calculate_metric(returns, metric), t.metrics,
                                     PValue(t.metrics, _calculate_metric(returns, metric), metric),
                                     metric, confidence_level, n),
                  rng |-> t.rng ]
           : t \in { Trials(returns, IF KnownMetric(metric) THEN metric ELSE "total_return",
                            n, s) } })

\* test(data, returns, metric, confidence_level) of an object with
\* n_permutations = n, the generator being in state s: the record returned
\* and the state the generator is left in
test(returns, n, metric, confidence_level, s) ==
    IF ~KnownMetric(metric)
    THEN [ record |-> [ kind |-> "test", status |-> "error", call |-> "test" ],
           rng |-> s ]                                            \* lines 66, 142
    ELSE Only({ [ record |-> Only({ Outcome(actual_metric, t.metrics, p_value,
                                            metric, confidence_level, n)
                                    : p_value \in { PValue(t.metrics, actual_metric, metric) } }),
                  rng |-> t.rng ]
                : actual_metric \in { _calculate_metric(returns, metric) },
                  t \in { Trials(returns, metric, n, s) } })

\* ------------------------------------------------- MonteCarloPermutationTest
\* calculate, lines 36-64: every trial calls get_permutation with the
\* start_index and seed it was given, then draws an order of the returns
\* and sums them.  The set holds every record the call may end with (the
\* seed None leaves the generator in any state).  Beside the sums, a trial
\* leaves a note of the generator state its draws began from (the state
\* after line 74) and of the state it left.
RECURSIVE CalcTrials(_, _, _, _, _, _)
CalcTrials(data, returns, k, start, sd, s) ==
    IF k <= 0 THEN { [ status |-> "ok", sums |-> <<>>, trial_rng |-> <<>>, rng |-> s ] }
    ELSE UNION { UNION {
           IF g.status = "error"
           THEN { [ status |-> "error", sums |-> <<>>, trial_rng |-> <<>>, rng |-> g.rng ] }
           ELSE UNION {
                  { [ status |-> rest.status,
                      sums   |-> IF rest.status = "error" THEN <<>>
                                 ELSE <<TotalReturn(Take(returns, d.perm))>> \o rest.sums,
                      trial_rng |-> IF rest.status = "error" THEN <<>>
                                    ELSE << [ from |-> s1, to |-> d.rng ] >> \o rest.trial_rng,
                      rng    |-> rest.rng ]
                    : rest \in CalcTrials(data, returns, k - 1, start, sd, d.rng) }
                  : d \in { RandomPermutation(Len(returns), g.rng) } }
           : g \in { get_permutation(data, start, s1) } }
           : s1 \in SeedStates(sd, s) }

\* lines 49-64
CalcOutcome(actual_return, sums, p_value, n, significance_level, sd, trial_rng) ==
    [ kind |-> "calculate", status |-> "ok",
      seed |-> sd, trial_rng |-> trial_rng,
      actual_return |-> actual_return,
      permutation_mean |-> MeanOf(sums),
      std_positive |-> StdPositive(sums),
      p_value |-> p_value,
      is_significant |-> Below(p_value, significance_level),
      permutation_returns |-> sums,
      n_permutations |-> n,
      significance_level |-> significance_level ]

calculate(data, returns, n, significance_level, start, sd, s) ==
    { IF t.status = "error"
      THEN [ record |-> [ kind |-> "calculate", status |-> "error" ], rng |-> t.rng ]
      ELSE [ record |->
               Only({ CalcOutcome(actual_return, t.sums,
                                  MeanOfFlags([i \in DOMAIN t.sums |-> RGeq(t.sums[i], actual_return)]),
                                  n, significance_level, sd, t.trial_rng)
                      : actual_return \in { TotalReturn(returns) } }),
             rng |-> t.rng ]
      : t \in CalcTrials(data, returns, n, start, sd, s) }

\* ----------------------------------------------------------------- actions
Seeds == (0..MaxSeed) \cup {NoSeed}

StartIndexes == (0 - MinStartAbs)..(MaxBars + 1)

NoCall ==
    [ called |-> FALSE, rng_changed |-> FALSE, input_kept |-> TRUE,
      repeat |-> FALSE, disturbed |-> FALSE, same_tables |-> FALSE,
      result |-> Failure("none", 0) ]

NoOutcome == [ kind |-> "none", status |-> "none" ]

\* no get_results or set_params call yet; since tells what happened last to
\* the stored result: "never" calculated, "calculated", or "set_params"
NoRequest == [ op |-> "none", recalculate |-> FALSE, ran_test |-> FALSE,
              since |-> "never" ]

\* no generate_signals call yet
NoSignals == [ called |-> FALSE ]

\* an empty series of raw signals, and exit_conditions=None
NoSeries == [ kind |-> "SignalChange", items |-> <<>> ]
NoExits == [ given |-> FALSE, items |-> <<>> ]

\* a base_dir that does not exist
Missing == [ exists |-> FALSE, items |-> {} ]

\* the market data handed to calculate: one table of three bars
CalcData ==
    [ form |-> "single",
      tables |-> << Frame(TimeIndex(3), {},
                          << Bar(10, 14, 9, 12), Bar(15, 16, 8, 9), Bar(10, 14, 9, 12) >>) >> ]

\* BaseSignificanceTest.__init__(n_permutations=..., random_seed=...): the
\* keyword arguments of the constructor are kept as params
InitParams ==
    /\ params = [ n_permutations |-> n_permutations, random_seed |-> random_seed ]
    /\ call = NoRequest

\* the objects a run does not use stay as constructed
InitRest ==
    /\ current_position = "NEUTRAL" /\ signal_result = NoSignals
    /\ raw_signals = NoSeries /\ exit_conditions = NoExits
    /\ position = 0 /\ rsi_values = <<>> /\ signals = <<>>
    /\ base_dir = Missing /\ created = <<>>

InitPerm ==
    /\ ohlc \in Inputs
    /\ start_index \in StartIndexes
    /\ seed \in Seeds
    /\ last = NoCall

\* MonteCarloSignificanceTest(n_permutations, random_seed): the constructor
\* seeds the global generator when random_seed is not None
InitTest ==
    /\ strategy_returns \in ReturnsSeries
    /\ n_permutations \in 0..MaxPerms
    /\ random_seed \in Seeds
    /\ outcome = NoOutcome
    /\ results = NoOutcome /\ is_calculated = FALSE    \* base lines 38-39
    /\ InitParams
    /\ InitRest

Init ==
    /\ InitPerm
    /\ rng \in 0..(RngMod - 1)
    /\ strategy_returns = <<>> /\ n_permutations = 0 /\ random_seed = NoSeed
    /\ outcome = NoOutcome
    /\ results = NoOutcome /\ is_calculated = FALSE    \* base lines 38-39
    /\ InitParams
    /\ InitRest

\* one call get_permutation(ohlc, start_index, seed).  The record keeps,
\* beside the result, what the call did to the generator and how the result
\* compares with the result of the call before it.
GetPermutation ==
    \E s \in SeedStates(seed, rng) :                          \* line 74
    \E r \in { get_permutation(ohlc, start_index, s) } :
      LET again == last.called /\ last.result.status = "ok" /\ r.status = "ok"
      IN  /\ rng' = r.rng
          /\ ohlc' = InputAfter(ohlc, r)
          /\ last' = [ called      |-> TRUE,
                       rng_changed |-> r.rng # rng,
                       input_kept  |-> InputAfter(ohlc, r) = ohlc,
                       repeat      |-> again,
                       disturbed   |-> again /\ rng # last.result.rng,
                       same_tables |-> again /\ r.tables = last.result.tables,
                       result      |-> r ]
          /\ UNCHANGED <<start_index, seed, testvars, restvars>>

\* simple_permutation(data, seed2) on the first table: seeds the generator
\* and draws one permutation of the returns; its frame is handed back to
\* the caller and kept nowhere
SimplePermutation(seed2) ==
    \E s \in SeedStates(seed2, rng) :
      /\ rng' = RandomPermutation(Len(ohlc.tables[1].bars), s).rng
      /\ UNCHANGED <<permvars, restvars, testvars>>

Next == GetPermutation

Spec == Init /\ [][Next]_vars

\* the same calls interleaved with another user of the global generator
InitRng ==
    /\ Init
    /\ Len(ohlc.tables[1].bars) = RngBars

NextRng ==
    \/ GetPermutation
    \/ \E seed2 \in Seeds : SimplePermutation(seed2)

SpecRng == InitRng /\ [][NextRng]_vars

\* MonteCarloSignificanceTest.test(data, strategy_returns, metric=...,
\* confidence_level=...)
Test(metric, confidence_level) ==
    \E r \in { test(strategy_returns, n_permutations, metric, confidence_level, rng) } :
      /\ outcome' = r.record
      /\ rng' = r.rng
      /\ UNCHANGED <<permvars, restvars, objvars, cachevars>>

InitMC ==
    /\ ohlc = CalcData /\ start_index = 0 /\ seed = NoSeed /\ last = NoCall
    /\ InitTest
    /\ rng \in IF random_seed = NoSeed THEN 0..(RngMod - 1)             \* lines 45-46
               ELSE SeedStates(random_seed, 0)

\* BaseSignificanceTest.get_results(data, strategy_returns, recalculate,
\* metric=...): the test runs when nothing is stored yet or recalculate is
\* set, and its record is stored; an exception of test leaves the object as
\* it was.  Otherwise the stored record is handed back.
RunTest(returns, metric, recalculate) ==
    \E r \in { test(returns, n_permutations, metric, Rat(1, 20), rng) } :
      /\ rng' = r.rng
      /\ IF r.record.status = "error"
         THEN /\ outcome' = [r.record EXCEPT !.call = "get_results"]
              /\ UNCHANGED <<results, is_calculated>>
         ELSE /\ results' = r.record                              \* base line 75
              /\ is_calculated' = TRUE                            \* base line 76
              /\ outcome' = r.record                              \* base line 78
      /\ call' = [ op |-> "get_results", recalculate |-> recalculate,
                   ran_test |-> TRUE,
                   since |-> IF r.record.status = "error" THEN call.since
                             ELSE "calculated" ]
      /\ UNCHANGED <<permvars, restvars, objvars, params>>

ReturnStored(recalculate) ==
    /\ outcome' = results                                         \* base line 78
    /\ call' = [ op |-> "get_results", recalculate |-> recalculate,
                 ran_test |-> FALSE, since |-> call.since ]
    /\ UNCHANGED <<permvars, restvars, rng, objvars, results, is_calculated, params>>

GetResultsAlways(returns, metric, recalculate) ==
    RunTest(returns, metric, recalculate)

GetResults(returns, metric, recalculate) ==
    IF ~is_calculated \/ recalculate                                  \* base line 74
    THEN RunTest(returns, metric, recalculate)
    ELSE ReturnStored(recalculate)

\* BaseSignificanceTest.set_params(n_permutations=k): the entry of params is
\* replaced and the stored result is marked stale; nothing else is assigned
SetParams(k) ==
    /\ params' = [params EXCEPT !.n_permutations = k]               \* base line 86
    /\ is_calculated' = FALSE                                       \* base line 87
    /\ call' = [ op |-> "set_params", recalculate |-> FALSE, ran_test |-> FALSE,
                 since |-> "set_params" ]
    /\ UNCHANGED <<permvars, restvars, rng, objvars, outcome, results>>

\* ProfitFactorMeasure().calculate(strategy_returns)
MeasureProfitFactor ==
    /\ outcome' = [ kind |-> "measure", status |-> "ok",
                    value |-> ProfitFactorMeasure(strategy_returns) ]
    /\ UNCHANGED <<permvars, restvars, rng, objvars, cachevars>>

NextMC ==
    \/ \E metric \in Metrics, confidence_level \in Levels : Test(metric, confidence_level)
    \/ MeasureProfitFactor

SpecMC == InitMC /\ [][NextMC]_vars

\* the object used through get_results as well as through test, with two
\* of the known metric names and one unknown name
CacheMetrics == { "total_return", "profit_factor", "calmar" }

NextResults ==
    \/ \E metric \in CacheMetrics, recalculate \in BOOLEAN :
         GetResults(strategy_returns, metric, recalculate)
    \/ \E metric \in CacheMetrics : Test(metric, Rat(1, 20))

InitResults ==
    /\ InitMC
    /\ Len(strategy_returns) = SeriesLen

SpecResults == InitResults /\ [][NextResults]_vars

\* get_results and set_params calls on one object; a call may bring another
\* series than the one the object was first asked about
NextParams ==
    \/ \E returns \in {strategy_returns, Tail(strategy_returns)},
          metric \in CacheMetrics, recalculate \in BOOLEAN :
         GetResults(returns, metric, recalculate)
    \/ \E k \in 0..MaxPerms : SetParams(k)

InitParamsRun ==
    /\ InitResults
    /\ random_seed = NoSeed

SpecParams == InitParamsRun /\ [][NextParams]_vars

\* the same object testing a series of gains only
InitTrend ==
    /\ ohlc = CalcData /\ start_index = 0 /\ seed = NoSeed /\ last = NoCall
    /\ strategy_returns \in UNION { [1..n -> PositiveSet] : n \in 1..MaxLen }
    /\ n_permutations \in 0..MaxPerms
    /\ random_seed \in Seeds
    /\ outcome = NoOutcome
    /\ results = NoOutcome /\ is_calculated = FALSE    \* base lines 38-39
    /\ InitParams
    /\ InitRest
    /\ rng \in IF random_seed = NoSeed THEN 0..(RngMod - 1)             \* lines 45-46
               ELSE SeedStates(random_seed, 0)

SpecTrend == InitTrend /\ [][NextMC]_vars

\* MonteCarloPermutationTest(n_permutations).calculate(data,
\* strategy_returns, significance_level=..., start_index=start_index,
\* seed=seed)
Calculate(significance_level) ==
    \E r \in calculate(ohlc, strategy_returns, n_permutations, significance_level,
                        start_index, seed, rng) :
      /\ outcome' = r.record
      /\ rng' = r.rng
      /\ UNCHANGED <<permvars, restvars, objvars, cachevars>>

\* runs of calculate that are given a seed
InitCalc ==
    /\ ohlc = CalcData /\ start_index \in {0, 3} /\ seed \in 0..MaxSeed /\ last = NoCall
    /\ strategy_returns \in { r \in ReturnsSeries : Len(r) \in {0, SeriesLen} }
    /\ n_permutations \in 0..MaxPerms /\ random_seed = NoSeed
    /\ outcome = NoOutcome
    /\ results = NoOutcome /\ is_calculated = FALSE
    /\ InitParams
    /\ InitRest
    /\ rng \in 0..(RngMod - 1)

NextCalc ==
    \E significance_level \in Levels : Calculate(significance_level)

SpecCalc == InitCalc /\ [][NextCalc]_vars

\* --------------------------------------------------------- signal manager
\* PositionState and its values (signals lines 18-22)
Positions == { "LONG", "SHORT", "NEUTRAL" }

PositionValue(p) ==
    CASE p = "LONG" -> 1
      [] p = "SHORT" -> 0 - 1
      [] OTHER -> 0

\* SignalChange (signals lines 33-42)
Changes == { "NEUTRAL_TO_LONG", "NEUTRAL_TO_SHORT", "LONG_TO_NEUTRAL",
             "LONG_TO_SHORT", "SHORT_TO_NEUTRAL", "SHORT_TO_LONG", "NO_CHANGE" }

\* SignalManager._position_state_to_signal_change, current the manager's
\* current_position
_position_state_to_signal_change(position_state, current) ==
    CASE position_state = "NEUTRAL" ->
           IF current = "LONG" THEN "LONG_TO_NEUTRAL"
           ELSE IF current = "SHORT" THEN "SHORT_TO_NEUTRAL"
           ELSE "NO_CHANGE"
      [] position_state = "LONG" ->
           IF current = "NEUTRAL" THEN "NEUTRAL_TO_LONG"
           ELSE IF current = "SHORT" THEN "SHORT_TO_LONG"
           ELSE "NO_CHANGE"
      [] position_state = "SHORT" ->
           IF current = "NEUTRAL" THEN "NEUTRAL_TO_SHORT"
           ELSE IF current = "LONG" THEN "LONG_TO_SHORT"
           ELSE "NO_CHANGE"
      [] OTHER -> "NO_CHANGE"

\* SignalManager._apply_signal_change
_apply_signal_change(signal_change, current) ==
    CASE signal_change = "NEUTRAL_TO_LONG" -> "LONG"
      [] signal_change = "NEUTRAL_TO_SHORT" -> "SHORT"
      [] signal_change = "LONG_TO_NEUTRAL" -> "NEUTRAL"
      [] signal_change = "SHORT_TO_NEUTRAL" -> "NEUTRAL"
      [] signal_change = "LONG_TO_SHORT" -> "SHORT"
      [] signal_change = "SHORT_TO_LONG" -> "LONG"
      [] OTHER -> current

\* the exit condition honoured only when the raw signal asks for no change
ExitChangeUnlessSignal(signal_change, exit_condition, current) ==
    IF exit_condition /\ current # "NEUTRAL" /\ signal_change = "NO_CHANGE"
    THEN IF current = "LONG" THEN "LONG_TO_NEUTRAL" ELSE "SHORT_TO_NEUTRAL"
    ELSE signal_change

\* lines 214-219: an exit condition met while a position is held replaces
\* the signal change
ExitChange(signal_change, exit_condition, current) ==
    IF exit_condition /\ current # "NEUTRAL"
    THEN IF current = "LONG" THEN "LONG_TO_NEUTRAL" ELSE "SHORT_TO_NEUTRAL"
    ELSE signal_change

\* the loop of lines 202-227 from bar i (1-based) on; acc holds
\* current_position and the two lists built so far
RECURSIVE SignalLoop(_, _, _, _)
SignalLoop(raw, exits, i, acc) ==
    IF i > Len(raw.items) THEN acc
    ELSE LET signal_change ==
                 ExitChange(IF raw.kind = "PositionState"
                            THEN _position_state_to_signal_change(raw.items[i],
                                                                  acc.current_position)
                            ELSE raw.items[i],
                            exits[i], acc.current_position)
             new_position == _apply_signal_change(signal_change, acc.current_position)
         IN  SignalLoop(raw, exits, i + 1,
                        [ current_position |-> new_position,
                          position_signals |-> Append(acc.position_signals,
                                                      PositionValue(new_position)),
                          signal_changes   |-> Append(acc.signal_changes, signal_change) ])

\* the loop begun from the position the call before left
generate_signalsFromLast(raw, exits, current) ==
    SignalLoop(raw,
               IF exits.given THEN exits.items ELSE [i \in 1..Len(raw.items) |-> FALSE],
               1,
               [ current_position |-> current,
                 position_signals |-> <<>>, signal_changes |-> <<>> ])

\* SignalManager.generate_signals(raw_signals, exit_conditions), current
\* the manager's current_position when the call begins
generate_signals(raw, exits, current) ==
    SignalLoop(raw,
               IF exits.given THEN exits.items ELSE [i \in 1..Len(raw.items) |-> FALSE],
               1,
               [ current_position |-> "NEUTRAL",                      \* line 200
                 position_signals |-> <<>>, signal_changes |-> <<>> ])

SignalSeries ==
    { [ kind |-> k, items |-> it ] :
        <<k, it>> \in ({"PositionState"} \X UNION { [1..n -> Positions] : n \in 1..MaxSignals })
                    \cup ({"SignalChange"} \X UNION { [1..n -> Changes] : n \in 0..MaxSignals }) }

ExitSeries(n) ==
    {NoExits} \cup { [ given |-> TRUE, items |-> e ] : e \in [1..n -> BOOLEAN] }

\* one call generate_signals(raw_signals, exit_conditions); before is the
\* position the manager held when the call began
GenerateSignals ==
    \E r \in { generate_signals(raw_signals, exit_conditions, current_position) } :
      /\ current_position' = r.current_position
      /\ signal_result' = [ called |-> TRUE,
                            before |-> current_position,
                            position_signals |-> r.position_signals,
                            signal_changes |-> r.signal_changes ]
      /\ UNCHANGED <<raw_signals, exit_conditions>>
      /\ UNCHANGED <<permvars, rng, testvars, stratvars, dirvars>>

InitSignals ==
    /\ ohlc = CalcData /\ start_index = 0 /\ seed = NoSeed /\ last = NoCall
    /\ rng = 0
    /\ strategy_returns = <<>> /\ n_permutations = 0 /\ random_seed = NoSeed
    /\ outcome = NoOutcome
    /\ results = NoOutcome /\ is_calculated = FALSE
    /\ InitParams
    /\ current_position = "NEUTRAL" /\ signal_result = NoSignals     \* line 166
    /\ raw_signals \in SignalSeries
    /\ exit_conditions \in ExitSeries(Len(raw_signals.items))
    /\ position = 0 /\ rsi_values = <<>> /\ signals = <<>>
    /\ base_dir = Missing /\ created = <<>>

SpecSignals == InitSignals /\ [][GenerateSignals]_vars

\* ----------------------------------------------------- RSI breakout strategy
\* the RSI feature is a collaborator of the strategy: its values, one per
\* bar, are an input here; NoValue stands for None and NaN
NoValue == 0 - 1
RsiSet == { NoValue, 20, 50, 80 }
RsiSeries == UNION { [1..n -> RsiSet] : n \in 0..MaxRsi }

\* the loop of lines 44-60 from bar i (1-based; the loop begins at the
\* second bar) on; acc holds self.position and signals_list
RECURSIVE BreakoutLoop(_, _, _, _, _)
BreakoutLoop(rsi, oversold, overbought, i, acc) ==
    IF i > Len(rsi) THEN acc
    ELSE LET current_rsi == rsi[i]
             previous_rsi == rsi[i - 1]
         IN  BreakoutLoop(rsi, oversold, overbought, i + 1,
               IF current_rsi = NoValue \/ previous_rsi = NoValue               \* line 49
               THEN acc
               ELSE IF previous_rsi <= oversold /\ current_rsi > oversold /\ acc.position = 0
               THEN [ position |-> 1,
                      signals_list |-> [acc.signals_list EXCEPT ![i] = "NEUTRAL_TO_LONG"] ]
               ELSE IF previous_rsi >= overbought /\ current_rsi < overbought
                       /\ acc.position = 1
               THEN [ position |-> 0,
                      signals_list |-> [acc.signals_list EXCEPT ![i] = "LONG_TO_NEUTRAL"] ]
               ELSE acc)

\* Mach1RsiBreakoutStrategy.generate_raw_signal(), pos the object's
\* position when the call begins
generate_raw_signal(rsi, oversold, overbought, pos) ==
    BreakoutLoop(rsi, oversold, overbought, 2,
                 [ position |-> pos,
                   signals_list |-> [i \in 1..Len(rsi) |-> "NO_CHANGE"] ])   \* line 38

\* one call generate_raw_signal() on the strategy object
GenerateRawSignal ==
    /\ Len(signals) < MaxCalls
    /\ \E r \in { generate_raw_signal(rsi_values, 30, 70, position) } :
         /\ position' = r.position
         /\ signals' = Append(signals, r.signals_list)
    /\ UNCHANGED rsi_values
    /\ UNCHANGED <<permvars, rng, testvars, sigvars, dirvars>>

\* Mach1RsiBreakoutStrategy(data): position 0
InitStrategy ==
    /\ ohlc = CalcData /\ start_index = 0 /\ seed = NoSeed /\ last = NoCall
    /\ rng = 0
    /\ strategy_returns = <<>> /\ n_permutations = 0 /\ random_seed = NoSeed
    /\ outcome = NoOutcome
    /\ results = NoOutcome /\ is_calculated = FALSE
    /\ InitParams
    /\ current_position = "NEUTRAL" /\ signal_result = NoSignals
    /\ raw_signals = NoSeries /\ exit_conditions = NoExits
    /\ position = 0 /\ signals = <<>>                                \* line 24
    /\ rsi_values \in RsiSeries
    /\ base_dir = Missing /\ created = <<>>

SpecStrategy == InitStrategy /\ [][GenerateRawSignal]_vars

\* --------------------------------------------------------- version manager
\* A name in base_dir is the record of the base name and of the digits that
\* follow "_V" at its end ("plot_V0012.png" has base "plot" and digits
\* 0, 0, 1, 2); a name without a version has no digits.

\* the decimal digits of n, and the number a digit sequence writes
RECURSIVE DigitsOf(_)
DigitsOf(n) == IF n < 10 THEN <<n>> ELSE Append(DigitsOf(n \div 10), n % 10)

RECURSIVE ValueOf(_)
ValueOf(d) == IF d = <<>> THEN 0 ELSE 10 * ValueOf(SubSeq(d, 1, Len(d) - 1)) + d[Len(d)]

\* f"{next_version:04d}": at least four digits, padded with zeros
Format04(n) ==
    LET d == DigitsOf(n)
    IN  IF Len(d) >= 4 THEN d ELSE [i \in 1..(4 - Len(d)) |-> 0] \o d

\* the base names the caller uses: one without and one with the text of a
\* version in it, whose four digits read BaseDigits
BaseNames == { "plot", "run_V0007" }
BaseDigits(base_name) == IF base_name = "run_V0007" THEN <<0, 0, 0, 7>> ELSE <<>>

NoMatch == 0 - 1

\* re.search(r"_V(\d{4})", item): the first place in the name where "_V" is
\* followed by four digits, and the number those four digits write
VersionMatch(item) ==
    IF BaseDigits(item.base) # <<>> THEN ValueOf(BaseDigits(item.base))
    ELSE IF Len(item.digits) >= 4 THEN ValueOf(SubSeq(item.digits, 1, 4))
    ELSE NoMatch

MaxOf(set) == CHOOSE x \in set : \A y \in set : y <= x

\* VersionManager.get_next_version("V") as the number it formats
get_next_version(dir) ==
    IF ~dir.exists THEN 1                                             \* lines 21-22
    ELSE LET existing_versions == { VersionMatch(item) : item \in dir.items } \ {NoMatch}
         IN  IF existing_versions = {} THEN 1                         \* lines 35-36
             ELSE MaxOf(existing_versions) + 1                        \* line 39

\* VersionManager.get_versioned_filename(base_name)
get_versioned_filename(base_name, dir) ==
    [ base |-> base_name, digits |-> Format04(get_next_version(dir)) ]

\* the names a directory may hold at the start
StartItems ==
    { [ base |-> "notes", digits |-> <<>> ],
      [ base |-> "plot", digits |-> <<0, 0, 0, 1>> ],
      [ base |-> "plot", digits |-> <<0, 0, 0, 3>> ],
      [ base |-> "plot", digits |-> <<9, 9, 9, 8>> ],
      [ base |-> "plot", digits |-> <<9, 9, 9, 9>> ] }

\* one step "get_versioned_filename(base_name), then create that file"; the
\* entry keeps the name, the version it carries and the directory asked
CreateVersionedFile(base_name) ==
    /\ Len(created) < MaxFiles
    /\ \E name \in { get_versioned_filename(base_name, base_dir) } :
         /\ created' = Append(created, [ name |-> name,
                                         version |-> ValueOf(name.digits),
                                         before |-> base_dir ])
         /\ base_dir' = [ exists |-> TRUE, items |-> base_dir.items \cup {name} ]
    /\ UNCHANGED <<permvars, rng, testvars, sigvars, stratvars>>

NextVersions == \E base_name \in BaseNames : CreateVersionedFile(base_name)

InitVersions ==
    /\ ohlc = CalcData /\ start_index = 0 /\ seed = NoSeed /\ last = NoCall
    /\ rng = 0
    /\ strategy_returns = <<>> /\ n_permutations = 0 /\ random_seed = NoSeed
    /\ outcome = NoOutcome
    /\ results = NoOutcome /\ is_calculated = FALSE
    /\ InitParams
    /\ current_position = "NEUTRAL" /\ signal_result = NoSignals
    /\ raw_signals = NoSeries /\ exit_conditions = NoExits
    /\ position = 0 /\ rsi_values = <<>> /\ signals = <<>>
    /\ base_dir \in {Missing} \cup { [ exists |-> TRUE, items |-> i ] : i \in SUBSET StartItems }
    /\ created = <<>>

SpecVersions == InitVersions /\ [][NextVersions]_vars

\* ------------------------------------------------------------- properties
NBars == Len(ohlc.tables[1].bars)
PermN == NBars - start_index - 1

\* a call that returned tables for a start_index inside the table
Returned == last.called /\ last.result.status = "ok" /\ start_index >= 0

Markets == 1..Len(ohlc.tables)

\* the relative values of the input bars after start_index, from the
\* input prices: position k is bar start_index + k (0-based)
InGap(m) ==
    [k \in 1..PermN |-> Log(ohlc.tables[m].bars[start_index + k + 1].open)
                        - Log(ohlc.tables[m].bars[start_index + k].close)]
InHighRel(m) ==
    [k \in 1..PermN |-> Log(ohlc.tables[m].bars[start_index + k + 1].high)
                        - Log(ohlc.tables[m].bars[start_index + k + 1].open)]
InLowRel(m) ==
    [k \in 1..PermN |-> Log(ohlc.tables[m].bars[start_index + k + 1].low)
                        - Log(ohlc.tables[m].bars[start_index + k + 1].open)]
InCloseRel(m) ==
    [k \in 1..PermN |-> Log(ohlc.tables[m].bars[start_index + k + 1].close)
                        - Log(ohlc.tables[m].bars[start_index + k + 1].open)]

\* the same values of the bars the call built, in log space
OutBars(m) == last.result.perm_bars[m]
OutGap(m) ==
    [k \in 1..PermN |-> OutBars(m)[start_index + k + 1].open - OutBars(m)[start_index + k].close]
OutHighRel(m) ==
    [k \in 1..PermN |-> OutBars(m)[start_index + k + 1].high - OutBars(m)[start_index + k + 1].open]
OutLowRel(m) ==
    [k \in 1..PermN |-> OutBars(m)[start_index + k + 1].low - OutBars(m)[start_index + k + 1].open]
OutCloseRel(m) ==
    [k \in 1..PermN |-> OutBars(m)[start_index + k + 1].close - OutBars(m)[start_index + k + 1].open]

Count(a, v) == Cardinality({ k \in DOMAIN a : a[k] = v })
SameBag(a, b) ==
    /\ Len(a) = Len(b)
    /\ \A k \in DOMAIN a : Count(a, a[k]) = Count(b, a[k])

Orders(n) == { p \in [1..n -> 1..n] : \A i, j \in 1..n : p[i] = p[j] => i = j }
Identity(n) == [i \in 1..n |-> i]

\* C1: in every call that returns, for every market the bag of gap values
\* of the bars after start_index is the same in the bars the call built (in
\* log space) as in the input, and so are the bags of the high, low and
\* close offsets: the call reorders the relative values and alters none.
C1_ValueBagsPreserved ==
    Returned =>
      \A m \in Markets :
        /\ SameBag(OutGap(m), InGap(m))
        /\ SameBag(OutHighRel(m), InHighRel(m))
        /\ SameBag(OutLowRel(m), InLowRel(m))
        /\ SameBag(OutCloseRel(m), InCloseRel(m))

\* a call that moved two different gap values and two different offsets
C1_Witness ==
    /\ Returned /\ PermN >= 2
    /\ InGap(1)[1] # InGap(1)[2] /\ OutGap(1) # InGap(1)
    /\ InCloseRel(1)[1] # InCloseRel(1)[2] /\ OutCloseRel(1) # InCloseRel(1)

\* C2 (as claimed): in every call that returns, every output bar at or
\* before start_index has the open, high, low and close of the input bar.
C2_PrefixEqualsInput ==
    Returned =>
      \A m \in Markets : \A i \in 1..(start_index + 1) :
        last.result.tables[m].bars[i] = ohlc.tables[m].bars[i]

\* C3 (as claimed): a call with the table, start_index and seed of the call
\* before it returns the same tables, whatever used the generator between.
C3_SameArgumentsSameOutput == last.repeat => last.same_tables

\* C3 (amended): the same, for a seed that is an integer and not None.
C3_SameIntegerSeedSameOutput ==
    (last.repeat /\ seed # NoSeed) => last.same_tables

\* a second call with an integer seed that shuffled at least two bars and
\* started from a generator state other than the one the first call left
C3_Witness ==
    /\ last.repeat /\ seed # NoSeed /\ last.disturbed
    /\ PermN >= 2 /\ last.result.perm1 # Identity(PermN)

\* C6 (as claimed): a call that fails because the markets disagree on
\* length or index leaves the generator in the state it found it in.
C6_MismatchLeavesGenerator ==
    (last.called /\ last.result.error = "IndexesDoNotMatch") => ~last.rng_changed

\* C7 (as claimed): a call fails whenever start_index is negative or the
\* window after it is empty, perm_n = n_bars - start_index - 1 < 1.
C7_EmptyWindowFails ==
    (last.called /\ (start_index < 0 \/ PermN < 1)) => last.result.status = "error"

\* C8 (as claimed): every table returned has the number of bars and the
\* column set of the input table it was made from.
C8_ShapeAndColumnsKept ==
    Returned =>
      \A m \in Markets :
        /\ Len(last.result.tables[m].bars) = Len(ohlc.tables[m].bars)
        /\ last.result.tables[m].columns = ohlc.tables[m].columns

\* C9: a call that returns drew exactly two orders of [0, perm_n); one
\* order p1 gives, in every market, the (high, low, close) offsets of
\* output position k as those of source position p1[k], and one order p2
\* gives, in every market, the gap of output position k as the gap of
\* source position p2[k].
C9_TwoSharedShuffles ==
    Returned =>
      /\ last.result.draws = 2
      /\ \E p1 \in Orders(PermN) : \A m \in Markets : \A k \in 1..PermN :
            /\ OutHighRel(m)[k]  = InHighRel(m)[p1[k]]
            /\ OutLowRel(m)[k]   = InLowRel(m)[p1[k]]
            /\ OutCloseRel(m)[k] = InCloseRel(m)[p1[k]]
      /\ \E p2 \in Orders(PermN) : \A m \in Markets : \A k \in 1..PermN :
            OutGap(m)[k] = InGap(m)[p2[k]]

\* two markets, both shuffles moved something
C9_Witness ==
    /\ Returned /\ Len(ohlc.tables) = 2 /\ PermN >= 2
    /\ OutCloseRel(1) # InCloseRel(1) /\ OutCloseRel(2) # InCloseRel(2)
    /\ OutGap(1) # InGap(1) /\ OutGap(2) # InGap(2)

RECURSIVE SumTo(_, _)
SumTo(a, k) == IF k = 0 THEN 0 ELSE a[k] + SumTo(a, k - 1)

\* C10: in log space the bars after start_index are chained left to right
\* from the unpermuted bar at start_index: with g, h, l, c the shuffled
\* gap, high, low and close offsets the call used, bar k of the window has
\* open = previous close + g[k], high = open + h[k], low = open + l[k],
\* close = open + c[k], so its close is the close of the bar at
\* start_index plus the first k gaps and the first k close offsets.
C10_ChainedLeftToRight ==
    Returned =>
      \A m \in Markets :
        LET g  == Take(InGap(m), last.result.perm2)
            h  == Take(InHighRel(m), last.result.perm1)
            l  == Take(InLowRel(m), last.result.perm1)
            c  == Take(InCloseRel(m), last.result.perm1)
            c0 == Log(ohlc.tables[m].bars[start_index + 1].close)
            gc == [k \in 1..PermN |-> g[k] + c[k]]
        IN  /\ OutBars(m)[start_index + 1].close = c0
            /\ \A k \in 1..PermN :
                 LET b == OutBars(m)[start_index + 1 + k] IN
                   /\ b.open  = OutBars(m)[start_index + k].close + g[k]
                   /\ b.high  = b.open + h[k]
                   /\ b.low   = b.open + l[k]
                   /\ b.close = b.open + c[k]
                   /\ b.close = c0 + SumTo(gc, k)

\* a chain of at least two rebuilt bars whose closes differ from the input's
C10_Witness ==
    /\ Returned /\ PermN >= 2
    /\ OutBars(1)[start_index + 2].close
         # Log(ohlc.tables[1].bars[start_index + 2].close)

\* a record returned by MonteCarloSignificanceTest.test
Tested == outcome.kind = "test" /\ outcome.status = "ok"

TrialIsBetter(i) ==
    IF HigherIsBetter(outcome.metric_tested)
    THEN RLess(outcome.actual_metric, outcome.permuted_metrics[i])
    ELSE RLess(outcome.permuted_metrics[i], outcome.actual_metric)

TrialIsTie(i) ==
    ~IsNaN(outcome.actual_metric) /\ outcome.permuted_metrics[i] = outcome.actual_metric

\* C4: the p_value of a test with at least one trial is, over
\* n_permutations, the number of trials whose metric is above the actual
\* metric (below it, for max_drawdown) plus the number of trials whose
\* metric equals it: ties are counted, under either direction.
C4_PValueCountsTies ==
    (Tested /\ n_permutations >= 1) =>
      /\ Len(outcome.permuted_metrics) = n_permutations
      /\ outcome.p_value.den = n_permutations
      /\ outcome.p_value.num =
           Cardinality({ i \in 1..n_permutations : TrialIsBetter(i) })
           + Cardinality({ i \in 1..n_permutations : TrialIsTie(i) })

\* a max_drawdown test with a trial that ties with the actual metric and
\* a trial that is neither a tie nor below it
C4_Witness ==
    /\ Tested /\ n_permutations >= 2
    /\ outcome.metric_tested = "max_drawdown"
    /\ \E i, j \in 1..n_permutations :
          TrialIsTie(i) /\ ~TrialIsTie(j) /\ ~TrialIsBetter(j)

\* C5 (as claimed): every record a test returns has a p_value that is a
\* number between 0 and 1.
C5_PValueInUnitInterval ==
    (outcome.kind \in {"test", "calculate"} /\ outcome.status = "ok") =>
      /\ outcome.p_value.den > 0
      /\ 0 <= outcome.p_value.num
      /\ outcome.p_value.num <= outcome.p_value.den

C12_SameContainerForm ==
    (last.called /\ last.result.status = "ok") =>
        /\ last.result.form = ohlc.form
        /\ Len(last.result.tables) = Len(ohlc.tables)

\* ---------------------------------------------------------------------------
AllPositive(a) == a # <<>> /\ \A i \in DOMAIN a : a[i] > 0

Constant(a) == \A i, j \in DOMAIN a : a[i] = a[j]

\* C13 (as claimed): with trials that are shuffles of the actual returns,
\* the metric total_return and all returns positive, the p_value is exactly
\* 1 / n_permutations.
C13_PValueIsOneOverN ==
    (Tested /\ outcome.metric_tested = "total_return"
            /\ n_permutations >= 1 /\ AllPositive(strategy_returns)) =>
        outcome.p_value.num * n_permutations = outcome.p_value.den

\* C13 (amended): in that case every trial ties the actual total return and
\* ties count, so the p_value is exactly 1.
C13_PValueIsOne ==
    (Tested /\ outcome.metric_tested = "total_return"
            /\ n_permutations >= 1 /\ AllPositive(strategy_returns)) =>
        /\ outcome.p_value.den = n_permutations
        /\ outcome.p_value.num = outcome.p_value.den
        /\ \A i \in DOMAIN outcome.permuted_metrics :
              outcome.permuted_metrics[i] = outcome.actual_metric

\* two or more trials over gains that are not all the same
C13_Witness ==
    /\ Tested /\ outcome.metric_tested = "total_return"
    /\ n_permutations >= 2
    /\ AllPositive(strategy_returns) /\ ~Constant(strategy_returns)
    /\ outcome.p_value.num = n_permutations

\* ---------------------------------------------------------------------------
TrialIsWorse(i) ==
    IF HigherIsBetter(outcome.metric_tested)
    THEN RLess(outcome.permuted_metrics[i], outcome.actual_metric)
    ELSE RLess(outcome.actual_metric, outcome.permuted_metrics[i])

\* C14 (as claimed): the p_value of a test with at least one trial is never
\* 0: it is at least 1 / n_permutations, for every metric (stated here for
\* the runs whose metrics are all numbers).
C14_PValueNeverZero ==
    (Tested /\ n_permutations >= 1 /\ ~IsNaN(outcome.actual_metric)
            /\ \A i \in DOMAIN outcome.permuted_metrics : ~IsNaN(outcome.permuted_metrics[i])) =>
        outcome.p_value.num * n_permutations >= outcome.p_value.den

\* C14 (amended): the p_value is k / n_permutations with k the number of
\* trials at least as extreme as the actual metric, 0 <= k <= n; it is 0
\* exactly when no trial is at least as extreme, so it is 0 whenever every
\* trial is strictly less extreme than the actual metric.
C14_PValueZeroWhenAllWorse ==
    (Tested /\ n_permutations >= 1) =>
      /\ outcome.p_value.den = n_permutations
      /\ 0 <= outcome.p_value.num /\ outcome.p_value.num <= n_permutations
      /\ outcome.p_value.num = 0
            <=> \A i \in 1..n_permutations : ~TrialIsBetter(i) /\ ~TrialIsTie(i)
      /\ (\A i \in 1..n_permutations : TrialIsWorse(i)) => outcome.p_value.num = 0

\* a test all of whose trials came out strictly less extreme than the
\* actual metric
C14_Witness ==
    /\ Tested /\ n_permutations >= 1
    /\ \A i \in 1..n_permutations : TrialIsWorse(i)
    /\ outcome.p_value.num = 0

\* C15: zero deviation is data, not an error: the sharpe metric of every
\* non-empty constant series is exactly 0, and the z_score is exactly 0
\* whenever all trial metrics are equal.
C15_ZeroDeviationIsData ==
    Tested =>
      /\ (outcome.metric_tested = "sharpe" /\ strategy_returns # <<>>
            /\ Constant(strategy_returns)) => outcome.actual_metric = Rat(0, 1)
      /\ Constant(outcome.permuted_metrics) => outcome.z_score = "zero"

NoLosses(a) == \A i \in DOMAIN a : a[i] >= 0

\* C16: the profit factor of a series with no losing bar is +infinity, in
\* the metric of the significance test as in ProfitFactorMeasure, and the
\* record of the test carries that value.
C16_NoLossesIsInfinity ==
    (strategy_returns # <<>> /\ NoLosses(strategy_returns)) =>
      /\ outcome.kind = "measure" => outcome.value = InfR
      /\ (Tested /\ outcome.metric_tested = "profit_factor") =>
            outcome.actual_metric = InfR

\* C18: a run needs at least one trial: test returns no record when
\* n_permutations < 1.
C18_AtLeastOneTrial ==
    Tested => n_permutations >= 1

\* C19: the result of test is a function of random_seed, strategy_returns,
\* metric, confidence_level and n_permutations: with a seed given, every
\* call returns the p_value and statistics of a call made on the freshly
\* seeded generator.
C19_ResultFunctionOfSeed ==
    (Tested /\ random_seed # NoSeed) =>
        \A first \in { test(strategy_returns, n_permutations, outcome.metric_tested,
                            outcome.confidence_level,
                            Only(SeedStates(random_seed, 0))).record } :
            /\ outcome.p_value = first.p_value
            /\ outcome.is_significant = first.is_significant
            /\ outcome.mean_random_metric = first.mean_random_metric
            /\ outcome.std_positive = first.std_positive
            /\ outcome.z_score = first.z_score

\* ---------------------------------------------------------------------------
\* C17: a test with a metric name outside sharpe, profit_factor,
\* total_return, max_drawdown fails before any trial is drawn: the step
\* that ends in the error leaves the generator as it was, and, made through
\* get_results, stores no result and leaves is_calculated as it was.
C17_UnknownMetricFailsFirst ==
    [][ (outcome'.kind = "test" /\ outcome'.status = "error") =>
            /\ rng' = rng
            /\ results' = results
            /\ is_calculated' = is_calculated ]_vars

\* get_results failed on an unknown metric, on an object that has nothing
\* stored and whose trials would have drawn from the generator
C17_Witness ==
    /\ outcome.kind = "test" /\ outcome.status = "error"
    /\ outcome.call = "get_results"
    /\ ~is_calculated /\ results = NoOutcome
    /\ n_permutations >= 1 /\ Len(strategy_returns) >= 2

\* ---------------------------------------------------------------------------
\* C20: within one calculate run with a seed supplied the stream is seeded
\* once and the trials consume it one after the other: the draws of trial
\* i + 1 begin from the generator state trial i left.
C20_TrialsShareOneStream ==
    (outcome.kind = "calculate" /\ outcome.status = "ok" /\ outcome.seed # NoSeed) =>
        \A i \in 1..(Len(outcome.trial_rng) - 1) :
            outcome.trial_rng[i + 1].from = outcome.trial_rng[i].to

\* ---------------------------------------------------------------------------
HasNaN(b) == b.open = NaN \/ b.high = NaN \/ b.low = NaN \/ b.close = NaN

\* a bar no market produces: its low above its close, or its high below
\* its open
Broken(b) == ~HasNaN(b) /\ (b.low > b.close \/ b.high < b.open)

WellFormed(b) ==
    HasNaN(b) \/ (/\ b.high >= Max(b.open, b.close)
                  /\ b.low  <= Min(b.open, b.close))

SomeBarBroken ==
    /\ last.called /\ last.result.status = "ok"
    /\ \E m \in DOMAIN last.result.tables :
         \E i \in DOMAIN last.result.tables[m].bars : Broken(last.result.tables[m].bars[i])

\* C21 (as claimed): there is an input of well-formed bars, and a draw, for
\* which the call puts out a bar with low > close or high < open: the call
\* just made did, or a call on one of the single tables does, for some
\* start_index and some state the generator can be seeded to.
C21_BrokenBarExists ==
    \/ SomeBarBroken
    \/ \E t \in Frames(BarSet, MaxBars), start \in 0..MaxBars, s \in 0..(RngMod - 1) :
        \E r \in { get_permutation([form |-> "single", tables |-> <<t>>], start, s) } :
            /\ r.status = "ok"
            /\ \E i \in DOMAIN r.tables[1].bars : Broken(r.tables[1].bars[i])

\* C21 (amended): a call on well-formed bars never puts out a bar with
\* low > close or high < open: one order (perm1) carries the high, low and
\* close offsets of a source bar together, so every output bar has
\* high >= max(open, close) and low <= min(open, close).
C21_BarsStayWellFormed ==
    (last.called /\ last.result.status = "ok") =>
        \A m \in DOMAIN last.result.tables :
            \A i \in DOMAIN last.result.tables[m].bars :
                /\ ~Broken(last.result.tables[m].bars[i])
                /\ WellFormed(last.result.tables[m].bars[i])

\* a call that reordered the offsets of two bars of different shape
C21_Witness ==
    /\ Returned /\ PermN >= 2
    /\ last.result.perm1 # Identity(PermN)
    /\ OutCloseRel(1) # InCloseRel(1)
    /\ OutLowRel(1) # InLowRel(1)

\* ---------------------------------------------------------------------------
\* C22: for sharpe, profit_factor and total_return every trial, a
\* reordering of the same returns, has the metric of the actual series, so
\* every run returns p_value = 1, z_score = 0 and is_significant = false
\* (for every confidence_level <= 1); calculate, comparing sums of reordered
\* returns with the actual sum, returns p_value = 1 as well.
C22_OrderInvariantMetricsGiveOne ==
    /\ (Tested /\ HigherIsBetter(outcome.metric_tested)) =>
          /\ outcome.p_value.den > 0
          /\ outcome.p_value.num = outcome.p_value.den
          /\ outcome.z_score = "zero"
          /\ ~outcome.is_significant
    /\ (outcome.kind = "calculate" /\ outcome.status = "ok") =>
          /\ outcome.p_value.den > 0
          /\ outcome.p_value.num = outcome.p_value.den

\* C23: the close of the last bar of an output equals the close of the last
\* bar of the input, in exact arithmetic (log space): it is the start bar's
\* log close plus all gaps and all close offsets, in whatever order.
C23_LastCloseKept ==
    Returned =>
        \A m \in Markets :
            OutBars(m)[NBars].close = Log(ohlc.tables[m].bars[NBars].close)

\* both orders drawn moved something, and a bar before the last closes
\* elsewhere than in the input
C23_Witness ==
    /\ Returned /\ PermN >= 2
    /\ OutCloseRel(1) # InCloseRel(1) /\ OutGap(1) # InGap(1)
    /\ \E i \in (start_index + 2)..(NBars - 1) :
          OutBars(1)[i].close # Log(ohlc.tables[1].bars[i].close)
    /\ OutBars(1)[NBars].close = Log(ohlc.tables[1].bars[NBars].close)

\* C24: over get_results and set_params calls on one object, a get_results
\* call executes test only when no result was calculated yet, when
\* recalculate is set, or when set_params was called since the last
\* calculation; every other get_results call hands back the stored result,
\* leaves it as it is and draws nothing from the generator, whatever series
\* and metric the call brings
C24_TestRunsOnlyWhenStale ==
    [][ call'.op = "get_results" =>
          IF call'.ran_test
          THEN call.since \in {"never", "set_params"} \/ call'.recalculate
          ELSE /\ outcome' = results
               /\ results' = results /\ is_calculated' = is_calculated
               /\ rng' = rng ]_vars

\* a get_results call answered from the stored result
C24_Witness ==
    /\ call.op = "get_results" /\ ~call.ran_test /\ ~call.recalculate
    /\ call.since = "calculated" /\ is_calculated
    /\ outcome = results /\ results.status = "ok"

\* C25: params.n_permutations, which get_params reports, equals the
\* n_permutations attribute the test loops over, and a calculation made
\* after set_params(n_permutations=k) runs k trials
C25_ParamsMatchAttribute ==
    /\ params.n_permutations = n_permutations
    /\ (call.op = "get_results" /\ call.ran_test /\ Tested)
         => /\ outcome.n_permutations = params.n_permutations
            /\ Len(outcome.permuted_metrics) = params.n_permutations

\* ---------------------------------------------------------------------------
\* the name of the change from position a to position b, from the list of
\* SignalChange members
Transition(a, b) ==
    IF a = b THEN "NO_CHANGE"
    ELSE CHOOSE c \in Changes :
           c = CASE <<a, b>> = <<"NEUTRAL", "LONG">> -> "NEUTRAL_TO_LONG"
                 [] <<a, b>> = <<"NEUTRAL", "SHORT">> -> "NEUTRAL_TO_SHORT"
                 [] <<a, b>> = <<"LONG", "NEUTRAL">> -> "LONG_TO_NEUTRAL"
                 [] <<a, b>> = <<"LONG", "SHORT">> -> "LONG_TO_SHORT"
                 [] <<a, b>> = <<"SHORT", "NEUTRAL">> -> "SHORT_TO_NEUTRAL"
                 [] <<a, b>> = <<"SHORT", "LONG">> -> "SHORT_TO_LONG"

\* the position whose value is v
PositionOf(v) == CHOOSE q \in Positions : PositionValue(q) = v

\* the position after bar i of the last call, NEUTRAL before the first bar
PositionAfter(i) ==
    IF i = 0 THEN "NEUTRAL" ELSE PositionOf(signal_result.position_signals[i])

SignalBars == 1..Len(raw_signals.items)

\* C26: generate_signals with PositionState raw signals and no exit
\* conditions starts from NEUTRAL whatever position the manager held, gives
\* position_signals[i] the value of raw_signals[i] and signal_changes[i] the
\* transition from the position after bar i-1 (NEUTRAL before the first
\* bar) to the position after bar i, NO_CHANGE when they are equal; both
\* outputs have the length of the input
C26_PositionsFollowRawSignals ==
    (signal_result.called /\ raw_signals.kind = "PositionState" /\ ~exit_conditions.given) =>
        /\ Len(signal_result.position_signals) = Len(raw_signals.items)
        /\ Len(signal_result.signal_changes) = Len(raw_signals.items)
        /\ \A i \in SignalBars :
             /\ signal_result.position_signals[i] = PositionValue(raw_signals.items[i])
             /\ signal_result.signal_changes[i]
                  = Transition(IF i = 1 THEN "NEUTRAL" ELSE raw_signals.items[i - 1],
                               raw_signals.items[i])

\* a call on a manager that an earlier call left LONG, with raw signals
\* that begin LONG
C26_Witness ==
    /\ signal_result.called /\ raw_signals.kind = "PositionState" /\ ~exit_conditions.given
    /\ signal_result.before = "LONG"
    /\ raw_signals.items[1] = "LONG"
    /\ signal_result.signal_changes[1] = "NEUTRAL_TO_LONG"

\* the outcome at bar i of the same call made with exit_conditions[i] false
WithoutExitAt(i) ==
    generate_signals(raw_signals,
                     [exit_conditions EXCEPT !.items[i] = FALSE],
                     signal_result.before)

\* C27: at every bar i where exit_conditions[i] is true and the position
\* after bar i-1 is LONG or SHORT, the position after bar i is NEUTRAL and
\* the change is LONG_TO_NEUTRAL or SHORT_TO_NEUTRAL, whatever the raw signal;
\* where the position before the bar is NEUTRAL the exit condition has no
\* effect: the bar comes out as it does with the condition false
C27_ExitTakesPrecedence ==
    (signal_result.called /\ exit_conditions.given) =>
        \A i \in SignalBars :
          exit_conditions.items[i] =>
            IF PositionAfter(i - 1) = "NEUTRAL"
            THEN /\ signal_result.position_signals[i] = WithoutExitAt(i).position_signals[i]
                 /\ signal_result.signal_changes[i] = WithoutExitAt(i).signal_changes[i]
            ELSE /\ signal_result.position_signals[i] = 0
                 /\ signal_result.signal_changes[i]
                      = IF PositionAfter(i - 1) = "LONG" THEN "LONG_TO_NEUTRAL"
                        ELSE "SHORT_TO_NEUTRAL"

\* an exit condition met at a bar whose raw signal asks to stay long or to
\* reverse, while a long position is held
C27_Witness ==
    /\ signal_result.called /\ exit_conditions.given
    /\ \E i \in SignalBars :
         /\ i > 1 /\ exit_conditions.items[i]
         /\ PositionAfter(i - 1) = "LONG"
         /\ raw_signals.items[i] \in {"LONG", "SHORT", "LONG_TO_SHORT", "NEUTRAL_TO_SHORT"}
         /\ signal_result.signal_changes[i] = "LONG_TO_NEUTRAL"

\* C28: every emitted signal change agrees with the positions around it,
\* for SignalChange inputs as for PositionState inputs: the change at bar i
\* is X_TO_Y only when the position after bar i-1 is X and the position
\* after bar i is Y, and NO_CHANGE only when the two are equal
C28_ChangesAgreeWithPositions ==
    signal_result.called =>
        \A i \in SignalBars :
          signal_result.signal_changes[i] = Transition(PositionAfter(i - 1), PositionAfter(i))

\* ---------------------------------------------------------------------------
\* the signals of a series other than NO_CHANGE, in order
RECURSIVE Emitted(_)
Emitted(series) ==
    IF series = <<>> THEN <<>>
    ELSE (IF series[1] = "NO_CHANGE" THEN <<>> ELSE <<series[1]>>) \o Emitted(Tail(series))

Alternates(series) ==
    \A k \in 1..Len(Emitted(series)) :
      Emitted(series)[k] = IF k % 2 = 1 THEN "NEUTRAL_TO_LONG" ELSE "LONG_TO_NEUTRAL"

Versioned(dir) == { item \in dir.items : item.digits # <<>> }

\* C30: get_next_version gives version 1 when base_dir is missing or holds
\* no versioned file, and otherwise a version greater than the version of
\* every versioned file in base_dir; over any sequence of steps
\* "get_versioned_filename, then create that file" no two created files
\* carry the same version
C30_VersionsNeverRepeat ==
    /\ \A i \in 1..Len(created) :
         IF Versioned(created[i].before) = {}
         THEN created[i].version = 1
         ELSE \A item \in Versioned(created[i].before) :
                created[i].version > ValueOf(item.digits)
    /\ \A i, j \in 1..Len(created) :
         i # j => created[i].version # created[j].version
====
